---- MODULE Spec2Model ----
(***************************************************************************)
(* A model of botbuilder-adapter-github: the GithubAdapter (webhook        *)
(* signature check, inbound pipeline processActivity, outbound             *)
(* sendActivities, updateActivity, deleteActivity, API client and identity *)
(* cache), the GithubMessageTypeMiddleware classifier and the              *)
(* GithubEventTypeMiddleware tagger.                                       *)
(*                                                                         *)
(* Strings the code inspects character by character (comment bodies, the   *)
(* bot login, signatures, repository full names) are sequences of          *)
(* one-character strings.  Promise rejections and thrown errors are the    *)
(* outcome "throw" of an operator, or the position "rejected" of a turn.   *)
(***************************************************************************)
EXTENDS Integers, Sequences, FiniteSets, TLC

VARIABLES
    options,     \* GithubAdapter.options: webhookSecret (0 = not set), githubToken
    identity,    \* GithubAdapter.identity: the cached bot account, or NoIdentity
    mw,          \* middleware bound with adapter.use(), in order
    turn,        \* number of webhook deliveries accepted so far
    pc,          \* position of the current call (processActivity / sendActivities / onTurn)
    req,         \* the inbound request of the current turn
    res,         \* the HTTP response object of the current turn
    verified,    \* what verifySignature returned for the current turn
    built,       \* the activity as processActivity constructed it
    activity,    \* context.activity, as the middleware may have rewritten it
    turnState,   \* context.turnState: httpStatus, httpBody
    steps,       \* the stages of processActivity the current turn has entered
    logicCalls,  \* invocations of the bot logic callback in the current turn
    batch,       \* sendActivities: the activities argument
    a,           \* sendActivities: the loop index (1-based)
    responses,   \* sendActivities: the responses array
    attempts,    \* sendActivities: per activity, what happened to it
    apiCalls,    \* the REST calls issued by the current turn or adapter call
    clients,     \* Octokit clients constructed by getAPI so far
    userRequests,\* users.getAuthenticated requests issued so far
    call         \* updateActivity / deleteActivity: the argument and the outcome

vars == <<options, identity, mw, turn, pc, req, res, verified, built, activity,
          turnState, steps, logicCalls, batch, a, responses, attempts,
          apiCalls, clients, userRequests, call>>

pipelineVars == <<options, identity, mw, turn, req, res, verified, built,
                  turnState, steps, logicCalls>>
sendVars == <<batch, a, responses, attempts>>
apiVars == <<apiCalls, clients, userRequests, call>>

-----------------------------------------------------------------------------
(* Bounds of the model. *)

MaxTurns == 2      \* webhook deliveries per behaviour
NumSecrets == 1    \* distinct non-empty webhook secrets
NumBodies == 2     \* distinct non-empty raw request bodies
MaxTextLen == 4    \* longest activity text the classifier is applied to
MaxBatch == 2      \* longest batch handed to sendActivities
MaxEdits == 2      \* calls of updateActivity / deleteActivity per behaviour

-----------------------------------------------------------------------------
(* Signature Verifier: GithubAdapter.verifySignature *)

HexDigits == <<"0", "1", "2", "3", "4", "5", "6", "7",
               "8", "9", "a", "b", "c", "d", "e", "f">>

\* .digest('hex') of a one-byte digest: two hexadecimal characters.
HexDigest(n) == <<HexDigits[(n \div 16) + 1], HexDigits[(n % 16) + 1]>>

\* crypto.createHmac('sha1', secret).update(body): a keyed digest, here one byte wide.
createHmac(secret, body) == (secret * 89 + body * 53 + 17) % 256

\* 'sha1=' + createHmac(...).digest('hex')
ComputedHash(secret, body) ==
    <<"s", "h", "a", "1", "=">> \o HexDigest(createHmac(secret, body))

\* req.header('X-Hub-Signature') when the request carries no such header.
NoHeader == <<"undefined">>

\* Buffer.from(messageHash): throws a TypeError for undefined.
BufferFromThrows(messageHash) == messageHash = NoHeader

\* crypto.timingSafeEqual(a, b): throws when the byte lengths differ.
timingSafeEqual(bufA, bufB) ==
    IF Len(bufA) # Len(bufB) THEN "throw"
    ELSE IF bufA = bufB THEN "true" ELSE "false"

\* The inner closure validSignature().
validSignature(messageHash, hash) ==
    IF BufferFromThrows(messageHash) THEN "throw"
    ELSE timingSafeEqual(messageHash, hash)

\* A variant that skips the check whenever a raw body is present, whether or
\* not a secret is configured.
verifySignatureNoSecretGuard(webhookSecret, rawBody, messageHash) ==
    IF rawBody # 0
    THEN LET v == validSignature(messageHash, ComputedHash(webhookSecret, rawBody))
         IN  CASE v = "throw" -> [ret |-> "throw", status |-> 0]
               [] v = "false" -> [ret |-> "false", status |-> 401]
               [] OTHER       -> [ret |-> "true", status |-> 0]
    ELSE [ret |-> "true", status |-> 0]

\* verifySignature(req, res): ret is the returned boolean or "throw"; status is
\* what it passed to res.status (0: res.status not called).  It never calls
\* res.send or res.end.
verifySignature(webhookSecret, rawBody, messageHash) ==
    IF webhookSecret # 0 /\ rawBody # 0
    THEN LET v == validSignature(messageHash, ComputedHash(webhookSecret, rawBody))
         IN  CASE v = "throw" -> [ret |-> "throw", status |-> 0]
               [] v = "false" -> [ret |-> "false", status |-> 401]
               [] OTHER       -> [ret |-> "true", status |-> 0]
    ELSE [ret |-> "true", status |-> 0]

-----------------------------------------------------------------------------
(* Values of the inbound side. *)

NoIdentity == [user_id |-> 0, login |-> <<>>]
\* user.data of octokit.users.getAuthenticated() for the configured token.
BotIdentity == [user_id |-> 7, login |-> <<"b">>]
OtherUser == [user_id |-> 8, login |-> <<"u">>]

\* activity.text of an event-kind activity: null.
NullText == <<"null">>

NoConversation == [isGroup |-> FALSE, conversationType |-> "undefined",
                   id |-> 0, repo |-> <<"undefined">>]
NoChannelData == [botkitEventType |-> "undefined", action |-> "undefined",
                  number |-> 0, issue_number |-> 0, full_name |-> <<"undefined">>]
NoActivity == [type |-> "none", id |-> <<>>, text |-> NullText, label |-> "none",
               from |-> [id |-> <<>>, role |-> "none"],
               conversation |-> NoConversation,
               recipient |-> [id |-> <<>>],
               channelData |-> NoChannelData]

FullName == <<"o", "/", "r">>     \* repository.full_name
IssueNumber == 42                 \* issue.number
PullNumber == 17                  \* number of a pull_request payload
CommentId == 1001                 \* comment.id
DeliveryId(t) == 100 + t          \* X-Github-Delivery of the t-th delivery

\* comment.body values of the deliveries.
CommentBodies ==
    { <<"w">>, <<"/", "w">>, <<"/", "b">>, <<"@", "b", " ", "w">> }

EventTypes == {"issue_comment", "pull_request", "issues", "push"}

\* The headers a delivery can carry: none, "sha1=" alone (too short), or the
\* signature of some body under some secret.
SigHeaders ==
    {NoHeader, <<"s", "h", "a", "1", "=">>}
      \cup {ComputedHash(s, b) : s \in 1..NumSecrets, b \in 1..NumBodies}

\* The parsed webhook body (req.body).
IssueCommentEvents ==
    { [comment |-> [id |-> CommentId, body |-> t,
                    user |-> [id |-> u.user_id, login |-> u.login, type |-> ty]],
       sender |-> [login |-> u.login, type |-> ty],
       action |-> "created"] :
        t \in CommentBodies, u \in {BotIdentity, OtherUser}, ty \in {"User", "Bot"} }

OtherEvents ==
    { [comment |-> [id |-> 0, body |-> NullText,
                    user |-> [id |-> 0, login |-> <<>>, type |-> "none"]],
       sender |-> [login |-> OtherUser.login, type |-> ty],
       action |-> act] :
        ty \in {"User", "Bot"}, act \in {"opened", "undefined"} }

\* The deliveries: an issue_comment delivery carries a comment, any other
\* event type does not.
Requests(t) ==
    { [rawBody |-> rb, sig |-> h, eventType |-> "issue_comment",
       delivery |-> DeliveryId(t), body |-> ev] :
        rb \in 0..NumBodies, h \in SigHeaders, ev \in IssueCommentEvents }
      \cup
    { [rawBody |-> rb, sig |-> h, eventType |-> et,
       delivery |-> DeliveryId(t), body |-> ev] :
        rb \in 0..NumBodies, h \in SigHeaders,
        et \in EventTypes \ {"issue_comment"}, ev \in OtherEvents }

NoRequest == [rawBody |-> 0, sig |-> NoHeader, eventType |-> "none", delivery |-> 0,
              body |-> CHOOSE ev \in OtherEvents : TRUE]
FreshResponse == [status |-> 0, written |-> FALSE, body |-> "", writes |-> 0]
NotVerified == [ret |-> "none", status |-> 0]
FreshTurnState == [httpStatus |-> 0, httpBody |-> ""]

MiddlewareChains ==
    { <<>>, <<"GithubMessageTypeMiddleware">>, <<"GithubEventTypeMiddleware">>,
      <<"GithubMessageTypeMiddleware", "GithubEventTypeMiddleware">>,
      <<"GithubEventTypeMiddleware", "GithubMessageTypeMiddleware">> }

-----------------------------------------------------------------------------
(* Text helpers: the regular expressions of GithubMessageTypeMiddleware.  *)

Alphabet == {"@", "b", "B", "/", "w", " ", ":"}

\* Case folding of the 'i' flag.
Lower(c) == IF c = "B" THEN "b" ELSE c

IsWhitespace(c) == c = " "          \* \s
IsWordChar(c) == c \in {"b", "B", "w"}   \* \w

Truthy(text) == text # NullText /\ text # <<>>

Drop(text, n) == SubSeq(text, n + 1, Len(text))

\* '@' + bot.login
mentionSyntax(login) == <<"@">> \o login

\* pat matches text at position i, ignoring case.
MatchAt(text, pat, i) ==
    /\ i + Len(pat) - 1 <= Len(text)
    /\ \A k \in 1..Len(pat) : Lower(text[i + k - 1]) = Lower(pat[k])

\* text.match(new RegExp('^' + mentionSyntax, 'i'))
MatchDirectMention(text, login) == MatchAt(text, mentionSyntax(login), 1)

\* text.match(new RegExp(mentionSyntax, 'i'))
MatchMention(text, login) ==
    \E i \in 1..Len(text) : MatchAt(text, mentionSyntax(login), i)

\* text.match(new RegExp('^\/\w+', 'i')): inside the string literal the
\* escapes \/ and \w denote the characters / and w, so the pattern is ^/w+ .
MatchSlashCommand(text) ==
    Len(text) >= 2 /\ text[1] = "/" /\ Lower(text[2]) = "w"

RECURSIVE StripLeadingWhitespace(_)
\* .replace(/^\s+/, '')
StripLeadingWhitespace(text) ==
    IF text # <<>> /\ IsWhitespace(Head(text))
    THEN StripLeadingWhitespace(Tail(text)) ELSE text

\* .replace(/^:\s+/, '')
StripColonWhitespace(text) ==
    IF Len(text) >= 2 /\ text[1] = ":" /\ IsWhitespace(text[2])
    THEN StripLeadingWhitespace(Tail(text)) ELSE text

\* text.replace(direct_mention, '').replace(/^\s+/, '').replace(/^:\s+/, '').replace(/^\s+/, '')
StripMention(text, login) ==
    StripLeadingWhitespace(
        StripColonWhitespace(
            StripLeadingWhitespace(Drop(text, Len(mentionSyntax(login))))))

\* text.replace(/^\//, '')
StripSlash(text) == IF text # <<>> /\ Head(text) = "/" THEN Tail(text) ELSE text

-----------------------------------------------------------------------------
(* Event Classification Middleware *)

\* A variant whose mention branch tags the activity direct_mention.
GithubMessageTypeMiddlewareMentionAsDirect(act, bot) ==
    IF act.type = "message"
    THEN CASE bot.login # <<>> /\ Truthy(act.text) /\ MatchDirectMention(act.text, bot.login) ->
                [act EXCEPT !.channelData.botkitEventType = "direct_mention",
                            !.text = StripMention(act.text, bot.login)]
           [] bot.login # <<>> /\ Truthy(act.text) /\ MatchMention(act.text, bot.login) ->
                [act EXCEPT !.channelData.botkitEventType = "direct_mention"]
           [] Truthy(act.text) /\ MatchSlashCommand(act.text) ->
                [act EXCEPT !.channelData.botkitEventType = "slash_command",
                            !.type = "event",
                            !.text = StripSlash(act.text)]
           [] OTHER -> act
    ELSE act

\* A variant that strips only the whitespace after the mention, never a colon.
GithubMessageTypeMiddlewareStripOnlyWhitespace(act, bot) ==
    IF act.type = "message"
    THEN CASE bot.login # <<>> /\ Truthy(act.text) /\ MatchDirectMention(act.text, bot.login) ->
                [act EXCEPT !.channelData.botkitEventType = "direct_mention",
                            !.text = StripLeadingWhitespace(
                                         Drop(act.text, Len(mentionSyntax(bot.login))))]
           [] bot.login # <<>> /\ Truthy(act.text) /\ MatchMention(act.text, bot.login) ->
                [act EXCEPT !.channelData.botkitEventType = "mention"]
           [] Truthy(act.text) /\ MatchSlashCommand(act.text) ->
                [act EXCEPT !.channelData.botkitEventType = "slash_command",
                            !.type = "event",
                            !.text = StripSlash(act.text)]
           [] OTHER -> act
    ELSE act

\* GithubMessageTypeMiddleware.onTurn, up to its call of next(); bot is what
\* adapter.getBotUserFromAPI() returned.  channelData is always set.
GithubMessageTypeMiddleware(act, bot) ==
    IF act.type = "message"
    THEN CASE bot.login # <<>> /\ Truthy(act.text) /\ MatchDirectMention(act.text, bot.login) ->
                [act EXCEPT !.channelData.botkitEventType = "direct_mention",
                            !.text = StripMention(act.text, bot.login)]
           [] bot.login # <<>> /\ Truthy(act.text) /\ MatchMention(act.text, bot.login) ->
                [act EXCEPT !.channelData.botkitEventType = "mention"]
           [] Truthy(act.text) /\ MatchSlashCommand(act.text) ->
                [act EXCEPT !.channelData.botkitEventType = "slash_command",
                            !.type = "event",
                            !.text = StripSlash(act.text)]
           [] OTHER -> act
    ELSE act

\* A variant of the tagger that never appends the action to the tag.
GithubEventTypeMiddlewareTypeOnly(act) ==
    IF /\ act.type = "event"
       /\ act.label # "none"
       /\ act.channelData.botkitEventType # "slash_command"
    THEN LET tagged == [act EXCEPT !.channelData.botkitEventType = act.label]
         IN  IF act.label \in {"pull_request", "issues"}
             THEN [tagged EXCEPT !.conversation =
                      [isGroup |-> TRUE, conversationType |-> act.label,
                       id |-> IF act.label = "pull_request"
                              THEN act.channelData.number
                              ELSE act.channelData.issue_number,
                       repo |-> act.channelData.full_name]]
             ELSE tagged
    ELSE act

\* A variant of the tagger without the test for the slash_command tag.
GithubEventTypeMiddlewareRetagsCommands(act) ==
    IF act.type = "event" /\ act.label # "none"
    THEN LET tagged ==
                 [act EXCEPT !.channelData.botkitEventType =
                     IF act.channelData.action # "undefined"
                     THEN act.label \o "_" \o act.channelData.action
                     ELSE act.label]
         IN  IF act.label \in {"pull_request", "issues"}
             THEN [tagged EXCEPT !.conversation =
                      [isGroup |-> TRUE, conversationType |-> act.label,
                       id |-> IF act.label = "pull_request"
                              THEN act.channelData.number
                              ELSE act.channelData.issue_number,
                       repo |-> act.channelData.full_name]]
             ELSE tagged
    ELSE act

\* A variant of the tagger that sets the tag and leaves the conversation.
GithubEventTypeMiddlewareTagOnly(act) ==
    IF /\ act.type = "event"
       /\ act.label # "none"
       /\ act.channelData.botkitEventType # "slash_command"
    THEN [act EXCEPT !.channelData.botkitEventType =
             IF act.channelData.action # "undefined"
             THEN act.label \o "_" \o act.channelData.action
             ELSE act.label]
    ELSE act

\* GithubEventTypeMiddleware.onTurn, up to its call of next().
GithubEventTypeMiddleware(act) ==
    IF /\ act.type = "event"
       /\ act.label # "none"
       /\ act.channelData.botkitEventType # "slash_command"
    THEN LET tagged ==
                 [act EXCEPT !.channelData.botkitEventType =
                     IF act.channelData.action # "undefined"
                     THEN act.label \o "_" \o act.channelData.action
                     ELSE act.label]
         IN  IF act.label \in {"pull_request", "issues"}
             THEN [tagged EXCEPT !.conversation =
                      [isGroup |-> TRUE, conversationType |-> act.label,
                       id |-> IF act.label = "pull_request"
                              THEN act.channelData.number
                              ELSE act.channelData.issue_number,
                       repo |-> act.channelData.full_name]]
             ELSE tagged
    ELSE act

ApplyMiddleware(name, act, bot) ==
    IF name = "GithubMessageTypeMiddleware"
    THEN GithubMessageTypeMiddleware(act, bot)
    ELSE GithubEventTypeMiddleware(act)

RECURSIVE RunChain(_, _, _)
\* BotAdapter.runMiddleware: each bound middleware in order, each calling next().
RunChain(chain, act, bot) ==
    IF chain = <<>> THEN act
    ELSE RunChain(Tail(chain), ApplyMiddleware(Head(chain), act, bot), bot)

-----------------------------------------------------------------------------
(* Adapter Core: API client and bot identity *)

\* getAPI(): this.octokit is never assigned, so every call takes the else
\* branch: it throws without a token and constructs a client otherwise.
getAPI(githubToken) == IF githubToken THEN "client" ELSE "throw"

\* What octokit.users.getAuthenticated() can do: resolve with the account,
\* resolve without a login, or reject.
UserApiOutcomes == {"user", "nologin", "reject"}

\* The number of clients constructed once getAPI() has been called with n
\* constructed before: new Octokit(...) runs on every call that has a token.
ClientsAfterGetAPI(n, githubToken) ==
    IF getAPI(githubToken) = "client" THEN n + 1 ELSE n

\* getBotUserFromAPI() reaches octokit.users.getAuthenticated(): the cache
\* is unset and getAPI() did not throw.
FetchesIdentity(cached, githubToken) ==
    cached = NoIdentity /\ getAPI(githubToken) = "client"

\* A variant that returns the fetched identity without storing it.
getBotUserFromAPINoCache(cached, githubToken, outcome) ==
    IF getAPI(githubToken) = "throw" \/ outcome # "user"
    THEN [ret |-> "throw", identity |-> cached]
    ELSE [ret |-> "ok", identity |-> cached]

\* getBotUserFromAPI(): the returned identity (or a throw) and the new cache.
getBotUserFromAPI(cached, githubToken, outcome) ==
    IF cached = NoIdentity
    THEN IF getAPI(githubToken) = "throw" \/ outcome # "user"
         THEN [ret |-> "throw", identity |-> cached]
         ELSE [ret |-> "ok", identity |-> BotIdentity]
    ELSE [ret |-> "ok", identity |-> cached]

-----------------------------------------------------------------------------
(* Activity Mapper, inbound: the two cases of processActivity's switch *)

RoleOf(type) == IF type = "User" THEN "user" ELSE "bot"

\* A variant that takes the conversation id from the comment, not the issue.
IssueCommentActivityCommentIdAsConversation(event, eventType, user) ==
    [type |-> "message",
     id |-> <<event.comment.id>>,
     text |-> event.comment.body,
     label |-> eventType,
     from |-> [id |-> event.comment.user.login, role |-> RoleOf(event.comment.user.type)],
     conversation |-> [isGroup |-> TRUE, conversationType |-> eventType,
                       id |-> event.comment.id, repo |-> FullName],
     recipient |-> [id |-> user.login],
     channelData |-> [botkitEventType |-> "undefined", action |-> event.action,
                      number |-> 0, issue_number |-> IssueNumber,
                      full_name |-> FullName]]

\* case 'issue_comment': the message-kind activity.
IssueCommentActivity(event, eventType, user) ==
    [type |-> "message",
     id |-> <<event.comment.id>>,
     text |-> event.comment.body,
     label |-> eventType,
     from |-> [id |-> event.comment.user.login, role |-> RoleOf(event.comment.user.type)],
     conversation |-> [isGroup |-> TRUE, conversationType |-> eventType,
                       id |-> IssueNumber, repo |-> FullName],
     recipient |-> [id |-> user.login],
     channelData |-> [botkitEventType |-> "undefined", action |-> event.action,
                      number |-> 0, issue_number |-> IssueNumber,
                      full_name |-> FullName]]

\* default: the event-kind activity.
EventActivity(event, eventType, delivery) ==
    [type |-> "event",
     id |-> FullName,
     text |-> NullText,
     label |-> eventType,
     from |-> [id |-> event.sender.login, role |-> RoleOf(event.sender.type)],
     conversation |-> [NoConversation EXCEPT !.id = delivery],
     recipient |-> [id |-> <<>>],
     channelData |-> [botkitEventType |-> "undefined", action |-> event.action,
                      number |-> IF eventType = "pull_request" THEN PullNumber ELSE 0,
                      issue_number |-> IF eventType = "issues" THEN IssueNumber ELSE 0,
                      full_name |-> FullName]]

\* A variant of the self-comment test that never drops.
IsSelfCommentNever(user, event) == FALSE

\* user.user_id == event.comment.user.id
IsSelfComment(user, event) == user.user_id = event.comment.user.id

-----------------------------------------------------------------------------
(* Activity Mapper, outbound: activityToGithub, and sendActivities *)

UndefinedRepo == <<"undefined">>     \* conversation.repo not set
UndefinedPart == <<"undefined">>     \* repoParts[1] of a name without '/'

RECURSIVE SplitAt(_, _, _)
\* repo.split('/'): the parts, the current part being accumulated in cur.
SplitAt(str, sep, cur) ==
    IF str = <<>> THEN <<cur>>
    ELSE IF Head(str) = sep THEN <<cur>> \o SplitAt(Tail(str), sep, <<>>)
    ELSE SplitAt(Tail(str), sep, Append(cur, Head(str)))

Split(str, sep) == SplitAt(str, sep, <<>>)

PartOrUndefined(parts, i) == IF i <= Len(parts) THEN parts[i] ELSE UndefinedPart

NoTarget == [type |-> "undefined", id |-> 0, owner |-> UndefinedPart, repo |-> UndefinedPart]

\* activityToGithub(activity): throws when the conversation has no repo
\* (undefined.split); target stays unset when there is no conversation.
activityToGithub(act) ==
    IF act.hasConversation /\ act.conversation.repo = UndefinedRepo
    THEN [throws |-> TRUE, activityId |-> act.id, hasTarget |-> FALSE, target |-> NoTarget]
    ELSE IF act.hasConversation
    THEN LET repoParts == Split(act.conversation.repo, "/")
         IN  [throws |-> FALSE, activityId |-> act.id, hasTarget |-> TRUE,
              target |-> [type |-> act.conversation.conversationType,
                          id |-> act.conversation.id,
                          owner |-> PartOrUndefined(repoParts, 1),
                          repo |-> PartOrUndefined(repoParts, 2)]]
    ELSE [throws |-> FALSE, activityId |-> act.id, hasTarget |-> FALSE, target |-> NoTarget]

\* The conversations an outgoing activity can carry.
OutgoingConversations ==
    [isGroup : {TRUE},
     conversationType : {"issue_comment", "pull_request", "issues", "undefined"},
     id : {IssueNumber},
     repo : {FullName, <<"o">>, UndefinedRepo}]

\* The activities of a batch, before their ids are assigned.
OutgoingKinds ==
    [type : {"message"}, hasConversation : {TRUE}, conversation : OutgoingConversations]
      \cup [type : {"message", "event"}, hasConversation : {FALSE},
            conversation : {NoConversation}]

\* A batch: the k-th activity has id k.
Batches ==
    UNION { { [k \in 1..n |-> [type |-> kinds[k].type, id |-> k,
                               hasConversation |-> kinds[k].hasConversation,
                               conversation |-> kinds[k].conversation]] :
                kinds \in [1..n -> OutgoingKinds] } : n \in 0..MaxBatch }

\* What octokit.issues.createComment can do with a target: the request is
\* rejected when owner or repo is undefined; otherwise it resolves with
\* status 201, resolves with a status >= 300, or rejects.
CreateCommentOutcomes(target) ==
    IF target.owner = UndefinedPart \/ target.repo = UndefinedPart
    THEN {"rejected"}
    ELSE {"created", "status300", "rejected"}

\* result.data.id of the comment created for the k-th activity.
NewCommentId(k) == 2000 + k

\* The reply context.sendActivity(text) hands to sendActivities: message-kind,
\* no id, with the conversation of the incoming activity.
ReplyTo(act) ==
    [type |-> "message", id |-> 0, hasConversation |-> TRUE,
     conversation |-> act.conversation]

\* The arguments of octokit.issues.createComment for a message.
CreateCommentCall(message) ==
    [op |-> "createComment", owner |-> message.target.owner,
     repo |-> message.target.repo, issue_number |-> message.target.id]

\* sendActivities(context, [reply]) for one message-kind reply: whether it
\* threw to its caller, the REST calls it issued, and whether getAPI ran.
sendReply(reply, githubToken) ==
    LET message == activityToGithub(reply)
    IN  IF message.throws
        THEN [threw |-> TRUE, calls |-> <<>>, gotAPI |-> FALSE]
        ELSE IF getAPI(githubToken) = "throw"
        THEN [threw |-> FALSE, calls |-> <<>>, gotAPI |-> TRUE]
        ELSE IF message.hasTarget
                /\ message.target.type \in {"issue_comment", "pull_request", "issues"}
        THEN [threw |-> FALSE, calls |-> <<CreateCommentCall(message)>>, gotAPI |-> TRUE]
        ELSE [threw |-> FALSE, calls |-> <<>>, gotAPI |-> TRUE]

-----------------------------------------------------------------------------
(* Adapter Core: processActivity, one action per await *)

\* What the bot logic callback can do in a turn: throw, or set httpStatus
\* (0: leave it) and httpBody ("": leave it) on the turn state.  It may also
\* send one reply with context.sendActivity; throws says whether an error
\* (its own, or one of sendActivities it does not catch) escapes the callback.
LogicOutcomes ==
    [throws : {FALSE}, httpStatus : {0, 404}, httpBody : {"", "ok"}, reply : BOOLEAN]
      \cup [throws : {TRUE}, httpStatus : {0}, httpBody : {""}, reply : BOOLEAN]

\* The HTTP server hands a delivery to processActivity.
Receive ==
    /\ pc = "idle"
    /\ turn < MaxTurns
    /\ \E r \in Requests(turn + 1) : req' = r
    /\ turn' = turn + 1
    /\ pc' = "verify"
    /\ UNCHANGED <<options, identity, mw, res, verified, built, activity, turnState,
                   steps, logicCalls, sendVars, apiVars>>

\* if (!await this.verifySignature(req, res)) return;
VerifyStep ==
    /\ pc = "verify"
    /\ LET v == verifySignature(options.webhookSecret, req.rawBody, req.sig)
       IN  /\ verified' = v
           /\ res' = IF v.status # 0 THEN [res EXCEPT !.status = v.status] ELSE res
           /\ pc' = CASE v.ret = "throw" -> "rejected"
                      [] v.ret = "false" -> "done"
                      [] OTHER           -> "identity"
    /\ steps' = steps \cup {"verify"}
    /\ UNCHANGED <<options, identity, mw, turn, req, built, activity, turnState,
                   logicCalls, sendVars, apiVars>>

\* const user = await this.getBotUserFromAPI();
IdentityStep ==
    /\ pc = "identity"
    /\ \E outcome \in UserApiOutcomes :
          LET g == getBotUserFromAPI(identity, options.githubToken, outcome)
          IN  /\ identity' = g.identity
              /\ pc' = IF g.ret = "throw" THEN "rejected" ELSE "build"
    /\ clients' = IF identity = NoIdentity
                  THEN ClientsAfterGetAPI(clients, options.githubToken) ELSE clients
    /\ userRequests' = IF FetchesIdentity(identity, options.githubToken)
                       THEN userRequests + 1 ELSE userRequests
    /\ steps' = steps \cup {"identity"}
    /\ UNCHANGED <<options, mw, turn, req, res, verified, built, activity, turnState,
                   logicCalls, sendVars, apiCalls, call>>

\* The switch on eventType up to runMiddleware: drop the bot's own comment,
\* or build the activity and the turn context.
BuildStep ==
    /\ pc = "build"
    /\ steps' = steps \cup {"build"}
    /\ IF req.eventType = "issue_comment"
       THEN IF IsSelfComment(identity, req.body)
            THEN /\ pc' = "done"
                 /\ UNCHANGED <<built, activity, turnState>>
            ELSE /\ built' = IssueCommentActivity(req.body, req.eventType, identity)
                 /\ activity' = built'
                 /\ turnState' = [turnState EXCEPT !.httpStatus = 200]
                 /\ pc' = "middleware"
       ELSE /\ built' = EventActivity(req.body, req.eventType, req.delivery)
            /\ activity' = built'
            /\ turnState' = [turnState EXCEPT !.httpStatus = 200]
            /\ pc' = "middleware"
    /\ UNCHANGED <<options, identity, mw, turn, req, res, verified, logicCalls, sendVars, apiVars>>

\* await this.runMiddleware(context, logic): the bound middleware, in order.
MiddlewareStep ==
    /\ pc = "middleware"
    /\ activity' = RunChain(mw, activity, identity)
    /\ LET fetches == /\ \E i \in 1..Len(mw) : mw[i] = "GithubMessageTypeMiddleware"
                      /\ activity.type = "message"
                      /\ identity = NoIdentity
       IN  \* the classifier's own adapter.getBotUserFromAPI()
           /\ clients' = IF fetches THEN ClientsAfterGetAPI(clients, options.githubToken)
                         ELSE clients
           /\ userRequests' = IF fetches /\ FetchesIdentity(identity, options.githubToken)
                              THEN userRequests + 1 ELSE userRequests
    /\ steps' = steps \cup {"middleware"}
    /\ pc' = "logic"
    /\ UNCHANGED <<options, identity, mw, turn, req, res, verified, built, turnState,
                   logicCalls, sendVars, apiCalls, call>>

\* runMiddleware calls the bot logic at the end of the chain.
LogicStep ==
    /\ pc = "logic"
    /\ logicCalls' = logicCalls + 1
    /\ \E o \in LogicOutcomes :
          LET sent == sendReply(ReplyTo(activity), options.githubToken)
          IN  /\ turnState' = [httpStatus |-> IF o.httpStatus # 0 THEN o.httpStatus
                                              ELSE turnState.httpStatus,
                               httpBody |-> o.httpBody]
              /\ steps' = steps \cup (IF o.reply THEN {"logic", "reply"} ELSE {"logic"})
              /\ apiCalls' = IF o.reply THEN apiCalls \o sent.calls ELSE apiCalls
              /\ clients' = IF o.reply /\ sent.gotAPI
                            THEN ClientsAfterGetAPI(clients, options.githubToken)
                            ELSE clients
              /\ pc' = IF o.throws THEN "rejected" ELSE "respond"
    /\ UNCHANGED <<options, identity, mw, turn, req, res, verified, built, activity,
                   sendVars, userRequests, call>>

\* res.status(httpStatus); then res.send(httpBody) or res.end().
RespondStep ==
    /\ pc = "respond"
    /\ res' = [status |-> turnState.httpStatus, written |-> TRUE,
               body |-> turnState.httpBody, writes |-> res.writes + 1]
    /\ steps' = steps \cup {"respond"}
    /\ pc' = "done"
    /\ UNCHANGED <<options, identity, mw, turn, req, verified, built, activity,
                   turnState, logicCalls, sendVars, apiVars>>

\* The promise of processActivity settles (resolved at "done", rejected at
\* "rejected"); the objects of the turn are released.
ReturnStep ==
    /\ pc \in {"done", "rejected"}
    /\ pc' = "idle"
    /\ req' = NoRequest
    /\ res' = FreshResponse
    /\ verified' = NotVerified
    /\ built' = NoActivity
    /\ activity' = NoActivity
    /\ turnState' = FreshTurnState
    /\ steps' = {}
    /\ logicCalls' = 0
    /\ apiCalls' = <<>>
    /\ UNCHANGED <<options, identity, mw, turn, sendVars, clients, userRequests, call>>

OptionSets == [webhookSecret : 0..NumSecrets, githubToken : BOOLEAN]

NoBatch == <<>>

\* No updateActivity / deleteActivity call is in progress.
NoCall == [op |-> "none"]

Init ==
    /\ options \in OptionSets
    /\ identity = NoIdentity
    /\ mw \in MiddlewareChains
    /\ turn = 0
    /\ pc = "idle"
    /\ req = NoRequest
    /\ res = FreshResponse
    /\ verified = NotVerified
    /\ built = NoActivity
    /\ activity = NoActivity
    /\ turnState = FreshTurnState
    /\ steps = {}
    /\ logicCalls = 0
    /\ batch = NoBatch
    /\ a = 1
    /\ responses = <<>>
    /\ attempts = <<>>
    /\ apiCalls = <<>>
    /\ clients = 0
    /\ userRequests = 0
    /\ call = NoCall

Next ==
    \/ Receive
    \/ VerifyStep
    \/ IdentityStep
    \/ BuildStep
    \/ MiddlewareStep
    \/ LogicStep
    \/ RespondStep
    \/ ReturnStep

Spec == Init /\ [][Next]_vars

-----------------------------------------------------------------------------
(* Adapter Core: sendActivities *)

\* One iteration of the for loop of sendActivities.
SendOne ==
    /\ pc = "send"
    /\ a <= Len(batch)
    /\ LET act == batch[a]
           message == activityToGithub(act)
       IN  IF act.type # "message"
           THEN /\ attempts' = Append(attempts, "not_message")
                /\ UNCHANGED responses
                /\ a' = a + 1
                /\ pc' = "send"
           ELSE IF message.throws
           THEN \* activityToGithub is called before the try block
                /\ attempts' = Append(attempts, "threw")
                /\ UNCHANGED <<responses, a>>
                /\ pc' = "sendThrown"
           ELSE IF getAPI(options.githubToken) = "throw" \/ ~message.hasTarget
           THEN \* caught by the catch block
                /\ attempts' = Append(attempts, "caught")
                /\ UNCHANGED responses
                /\ a' = a + 1
                /\ pc' = "send"
           ELSE IF message.target.type \in {"issue_comment", "pull_request", "issues"}
           THEN \E outcome \in CreateCommentOutcomes(message.target) :
                   /\ attempts' = Append(attempts, outcome)
                   /\ responses' =
                        IF outcome = "created"
                        THEN Append(responses, [id |-> NewCommentId(a),
                                                activityId |-> act.id,
                                                conversation |-> act.conversation])
                        ELSE responses
                   /\ a' = a + 1
                   /\ pc' = "send"
           ELSE /\ attempts' = Append(attempts, "unsupported")
                /\ UNCHANGED responses
                /\ a' = a + 1
                /\ pc' = "send"
    /\ LET act == batch[a]
           message == activityToGithub(act)
           reached == act.type = "message" /\ ~message.throws
       IN  /\ clients' = IF reached
                         THEN ClientsAfterGetAPI(clients, options.githubToken)
                         ELSE clients
           /\ apiCalls' = IF /\ reached
                             /\ getAPI(options.githubToken) = "client"
                             /\ message.hasTarget
                             /\ message.target.type
                                  \in {"issue_comment", "pull_request", "issues"}
                          THEN Append(apiCalls, CreateCommentCall(message))
                          ELSE apiCalls
    /\ UNCHANGED <<pipelineVars, activity, batch, userRequests, call>>

\* return responses;
SendReturn ==
    /\ pc = "send"
    /\ a > Len(batch)
    /\ pc' = "sendReturned"
    /\ UNCHANGED <<pipelineVars, activity, sendVars, apiVars>>

InitSend ==
    /\ options \in [webhookSecret : {0}, githubToken : BOOLEAN]
    /\ identity = NoIdentity
    /\ mw = <<>>
    /\ turn = 0
    /\ pc = "send"
    /\ req = NoRequest
    /\ res = FreshResponse
    /\ verified = NotVerified
    /\ built = NoActivity
    /\ activity = NoActivity
    /\ turnState = FreshTurnState
    /\ steps = {}
    /\ logicCalls = 0
    /\ batch \in Batches
    /\ a = 1
    /\ responses = <<>>
    /\ attempts = <<>>
    /\ apiCalls = <<>>
    /\ clients = 0
    /\ userRequests = 0
    /\ call = NoCall

NextSend == SendOne \/ SendReturn

SpecSend == InitSend /\ [][NextSend]_vars

-----------------------------------------------------------------------------
(* Adapter Core: updateActivity and deleteActivity *)

\* A second repository, for references that name another conversation than
\* the incoming activity.
OtherFullName == <<"p", "/", "q">>

NoId == <<>>                          \* activity.id / reference.activityId not set

\* The activity passed to updateActivity.
UpdateArgs ==
    [id : {NoId, <<NewCommentId(1)>>}, hasConversation : {TRUE},
     conversation : OutgoingConversations]
      \cup [id : {NoId, <<NewCommentId(1)>>}, hasConversation : {FALSE},
            conversation : {NoConversation}]

\* The reference passed to deleteActivity.
DeleteArgs ==
    [id : {NoId, <<NewCommentId(1)>>}, hasConversation : {TRUE},
     conversation : [isGroup : {TRUE}, conversationType : {"issue_comment", "pull_request"},
                     id : {IssueNumber}, repo : {FullName, OtherFullName}]]
      \cup [id : {NoId, <<NewCommentId(1)>>}, hasConversation : {FALSE},
            conversation : {NoConversation}]

\* context.activity of the turn in which the bot updates or deletes: a
\* comment, or an event before or after the tagger.
EditContexts ==
    { IssueCommentActivity(ev, "issue_comment", BotIdentity) :
        ev \in { e \in IssueCommentEvents : e.comment.user.id = OtherUser.user_id } }
      \cup { EventActivity(ev, "pull_request", DeliveryId(1)) : ev \in OtherEvents }
      \cup { GithubEventTypeMiddleware(EventActivity(ev, "pull_request", DeliveryId(1))) :
               ev \in OtherEvents }

\* An incoming activity as activityToGithub reads it.
Outgoing(act) ==
    [type |-> act.type, id |-> act.id, hasConversation |-> TRUE,
     conversation |-> act.conversation]

\* What a comment request of the REST client can do: it rejects when owner
\* or repo is undefined; otherwise it resolves with a 2xx status, resolves
\* with a status >= 300, or rejects.
CommentCallOutcomes(target) ==
    IF target.owner = UndefinedPart \/ target.repo = UndefinedPart
    THEN {"rejected"}
    ELSE {"ok", "status300", "rejected"}

\* The arguments of octokit.issues.updateComment / deleteComment.
CommentIdCall(op, message) ==
    [op |-> op, owner |-> message.target.owner, repo |-> message.target.repo,
     comment_id |-> message.activityId]

NoEdit == [raised |-> FALSE, logged |-> FALSE, calls |-> <<>>, gotAPI |-> FALSE]

\* A variant of updateActivity whose catch block rethrows.
updateActivityRethrows(arg, githubToken, outcome) ==
    IF arg.id = NoId \/ ~arg.hasConversation
    THEN [NoEdit EXCEPT !.raised = TRUE]
    ELSE LET message == activityToGithub(arg)
         IN  IF message.throws
             THEN [NoEdit EXCEPT !.raised = TRUE, !.logged = TRUE]
             ELSE IF getAPI(githubToken) = "throw"
             THEN [NoEdit EXCEPT !.raised = TRUE, !.logged = TRUE, !.gotAPI = TRUE]
             ELSE IF message.target.type = "issue_comment"
             THEN [raised |-> outcome = "rejected", logged |-> outcome # "ok",
                   calls |-> <<CommentIdCall("updateComment", message)>>,
                   gotAPI |-> TRUE]
             ELSE [NoEdit EXCEPT !.logged = TRUE, !.gotAPI = TRUE]

\* updateActivity(context, activity): whether it raised to its caller,
\* whether it logged an error, the REST calls it issued, whether getAPI ran.
updateActivity(arg, githubToken, outcome) ==
    IF arg.id = NoId \/ ~arg.hasConversation
    THEN [NoEdit EXCEPT !.raised = TRUE]
    ELSE LET message == activityToGithub(arg)
         IN  IF message.throws
             THEN [NoEdit EXCEPT !.logged = TRUE]                    \* caught
             ELSE IF getAPI(githubToken) = "throw"
             THEN [NoEdit EXCEPT !.logged = TRUE, !.gotAPI = TRUE]   \* caught
             ELSE IF message.target.type = "issue_comment"
             THEN [raised |-> FALSE, logged |-> outcome # "ok",
                   calls |-> <<CommentIdCall("updateComment", message)>>,
                   gotAPI |-> TRUE]
             ELSE [NoEdit EXCEPT !.logged = TRUE, !.gotAPI = TRUE]   \* unsupported

\* deleteActivity(context, reference).  The message is built from
\* context.activity; the promise of deleteComment is not awaited, so result
\* has no status (always logged) and the outcome of the request never
\* reaches the try block.
deleteActivity(reference, contextActivity, githubToken, outcome) ==
    IF reference.id = NoId \/ ~reference.hasConversation
    THEN [NoEdit EXCEPT !.raised = TRUE]
    ELSE IF getAPI(githubToken) = "throw"
    THEN [NoEdit EXCEPT !.raised = TRUE, !.logged = TRUE, !.gotAPI = TRUE]
    ELSE LET message == activityToGithub(Outgoing(contextActivity))
         IN  IF message.throws
             THEN [NoEdit EXCEPT !.raised = TRUE, !.logged = TRUE, !.gotAPI = TRUE]
             ELSE IF message.target.type = "issue_comment"
             THEN [raised |-> FALSE, logged |-> TRUE,
                   calls |-> <<CommentIdCall("deleteComment", message)>>,
                   gotAPI |-> TRUE]
             ELSE [NoEdit EXCEPT !.logged = TRUE, !.gotAPI = TRUE]   \* unsupported

\* The outcomes the request of an edit can have; "none" when none is issued.
EditOutcomes(calls, message) ==
    IF calls = <<>> THEN {"none"} ELSE CommentCallOutcomes(message.target)

EditCall(op, arg, outcome, r) ==
    [op |-> op, id |-> arg.id, hasConversation |-> arg.hasConversation,
     conversation |-> arg.conversation, outcome |-> outcome,
     raised |-> r.raised, logged |-> r.logged]

\* The bot calls adapter.updateActivity(context, arg).
UpdateActivity ==
    /\ pc = "edit"
    /\ turn < MaxEdits
    /\ \E arg \in UpdateArgs :
         \E outcome \in EditOutcomes(updateActivity(arg, options.githubToken, "ok").calls,
                                     activityToGithub(arg)) :
            LET r == updateActivity(arg, options.githubToken, outcome)
            IN  /\ call' = EditCall("update", arg, outcome, r)
                /\ apiCalls' = r.calls
                /\ clients' = IF r.gotAPI
                              THEN ClientsAfterGetAPI(clients, options.githubToken)
                              ELSE clients
    /\ turn' = turn + 1
    /\ UNCHANGED <<options, identity, mw, pc, req, res, verified, built, activity,
                   turnState, steps, logicCalls, sendVars, userRequests>>

\* The bot calls adapter.deleteActivity(context, reference).
DeleteActivity ==
    /\ pc = "edit"
    /\ turn < MaxEdits
    /\ \E reference \in DeleteArgs :
         \E outcome \in EditOutcomes(
                 deleteActivity(reference, activity, options.githubToken, "ok").calls,
                 activityToGithub(Outgoing(activity))) :
            LET r == deleteActivity(reference, activity, options.githubToken, outcome)
            IN  /\ call' = EditCall("delete", reference, outcome, r)
                /\ apiCalls' = r.calls
                /\ clients' = IF r.gotAPI
                              THEN ClientsAfterGetAPI(clients, options.githubToken)
                              ELSE clients
    /\ turn' = turn + 1
    /\ UNCHANGED <<options, identity, mw, pc, req, res, verified, built, activity,
                   turnState, steps, logicCalls, sendVars, userRequests>>

InitEdit ==
    /\ options \in [webhookSecret : {0}, githubToken : BOOLEAN]
    /\ identity = BotIdentity
    /\ mw = <<>>
    /\ turn = 0
    /\ pc = "edit"
    /\ req = NoRequest
    /\ res = FreshResponse
    /\ verified = NotVerified
    /\ activity \in EditContexts
    /\ built = activity
    /\ turnState = FreshTurnState
    /\ steps = {}
    /\ logicCalls = 0
    /\ batch = NoBatch
    /\ a = 1
    /\ responses = <<>>
    /\ attempts = <<>>
    /\ apiCalls = <<>>
    /\ clients = 0
    /\ userRequests = 0
    /\ call = NoCall

NextEdit == UpdateActivity \/ DeleteActivity

SpecEdit == InitEdit /\ [][NextEdit]_vars

-----------------------------------------------------------------------------
(* The classification passes applied to one activity *)

\* All texts of at most MaxTextLen characters.
Texts == UNION { [1..n -> Alphabet] : n \in 0..MaxTextLen }

CommentEventWith(text, ty) ==
    [comment |-> [id |-> CommentId, body |-> text,
                  user |-> [id |-> OtherUser.user_id, login |-> OtherUser.login,
                            type |-> ty]],
     sender |-> [login |-> OtherUser.login, type |-> ty],
     action |-> "created"]

\* The activities processActivity can hand to the middleware.
ClassifyInputs ==
    { IssueCommentActivity(CommentEventWith(t, "User"), "issue_comment", BotIdentity) :
        t \in Texts }
      \cup
    { EventActivity(ev, et, DeliveryId(1)) :
        ev \in OtherEvents, et \in EventTypes \ {"issue_comment"} }

Applied(name) == \E i \in 1..Len(mw) : mw[i] = name

\* GithubMessageTypeMiddleware.onTurn runs on the activity.
ClassifierTurn ==
    /\ pc = "classify"
    /\ ~Applied("GithubMessageTypeMiddleware")
    /\ activity' = GithubMessageTypeMiddleware(activity, identity)
    /\ mw' = Append(mw, "GithubMessageTypeMiddleware")
    /\ UNCHANGED <<options, identity, turn, pc, req, res, verified, built, turnState,
                   steps, logicCalls, sendVars, apiVars>>

\* GithubEventTypeMiddleware.onTurn runs on the activity.
TaggerTurn ==
    /\ pc = "classify"
    /\ ~Applied("GithubEventTypeMiddleware")
    /\ activity' = GithubEventTypeMiddleware(activity)
    /\ mw' = Append(mw, "GithubEventTypeMiddleware")
    /\ UNCHANGED <<options, identity, turn, pc, req, res, verified, built, turnState,
                   steps, logicCalls, sendVars, apiVars>>

InitClassify ==
    /\ options = [webhookSecret |-> 0, githubToken |-> TRUE]
    /\ identity = BotIdentity
    /\ mw = <<>>
    /\ turn = 0
    /\ pc = "classify"
    /\ req = NoRequest
    /\ res = FreshResponse
    /\ verified = NotVerified
    /\ built \in ClassifyInputs
    /\ activity = built
    /\ turnState = FreshTurnState
    /\ steps = {}
    /\ logicCalls = 0
    /\ batch = NoBatch
    /\ a = 1
    /\ responses = <<>>
    /\ attempts = <<>>
    /\ apiCalls = <<>>
    /\ clients = 0
    /\ userRequests = 0
    /\ call = NoCall

NextClassify == ClassifierTurn \/ TaggerTurn

SpecClassify == InitClassify /\ [][NextClassify]_vars

-----------------------------------------------------------------------------
(* Properties of the inbound pipeline (specification Spec) *)

SecretConfigured == options.webhookSecret # 0

\* "sha1=" + HMAC-SHA1(secret, raw body) for the current request.
ExpectedSignature == ComputedHash(options.webhookSecret, req.rawBody)

Settled == pc \in {"done", "rejected"}

\* C1: with a secret configured, a request whose X-Hub-Signature differs from
\* the expected signature gets a written 401 response with an empty body, and
\* the turn aborts: no identity lookup, no activity, no bot logic.
C1_BadSignatureAnswered401 ==
    (Settled /\ SecretConfigured /\ req.sig # ExpectedSignature)
        => /\ res.status = 401
           /\ res.written
           /\ res.body = ""
           /\ logicCalls = 0
           /\ "identity" \notin steps
           /\ "build" \notin steps

\* C2: with a secret configured, verifySignature returns true exactly when the
\* header equals the expected signature, and false, without throwing, for any
\* other header (other length, missing header, missing raw body).
C2_VerifyIffSignatureEqual ==
    ("verify" \in steps /\ SecretConfigured)
        => verified.ret = IF req.sig = ExpectedSignature THEN "true" ELSE "false"

\* C3: with no secret configured, verifySignature returns true whatever the
\* body and header, sets no 401 status, and the turn goes on to the identity
\* lookup.
C3_NoSecretAlwaysPasses ==
    (~SecretConfigured /\ "verify" \in steps)
        => /\ verified.ret = "true"
           /\ verified.status = 0
           /\ res.status # 401
           /\ (pc = "identity" \/ "identity" \in steps)

\* A delivery with no signature header and a raw body went through
\* verification with no secret configured and an activity was built for it.
C3_Witness ==
    /\ ~SecretConfigured
    /\ req.sig = NoHeader
    /\ req.rawBody # 0
    /\ "build" \in steps
    /\ built # NoActivity

\* C4: an issue_comment whose comment.user.id equals the cached identity's
\* user_id yields no activity, no middleware run and no bot logic call; one
\* whose author differs has its activity built and bot logic invoked.
C4_SelfCommentDropped ==
    (req.eventType = "issue_comment" /\ "build" \in steps)
        => IF req.body.comment.user.id = identity.user_id
           THEN /\ built = NoActivity
                /\ activity = NoActivity
                /\ "middleware" \notin steps
                /\ logicCalls = 0
                /\ pc = "done"
           ELSE /\ built # NoActivity
                /\ (pc \in {"middleware", "logic"} \/ logicCalls = 1)

\* The bot's own comment reached the author check in a later turn, with the
\* identity already cached, and the turn ended there.
C4_Witness ==
    /\ req.eventType = "issue_comment"
    /\ "build" \in steps
    /\ req.body.comment.user.id = identity.user_id
    /\ turn = 2
    /\ pc = "done"

\* C5: every webhook handed to processActivity gets a written response, with
\* status 200 and an empty body unless bot logic set httpStatus / httpBody,
\* whatever the outcome of the pipeline.
C5_EveryWebhookAnswered ==
    Settled
        => /\ res.written
           /\ res.status = (IF turnState.httpStatus # 0 THEN turnState.httpStatus ELSE 200)
           /\ res.body = turnState.httpBody

IsForeignIssueComment ==
    /\ req.eventType = "issue_comment"
    /\ req.body.comment.user.id # identity.user_id

\* The sender, label and conversation the spec gives an issue_comment activity.
HasMappedEnvelope(act) ==
    /\ act.label = req.eventType
    /\ act.from.id = req.body.comment.user.login
    /\ (act.from.role = "user") <=> (req.body.comment.user.type = "User")
    /\ act.from.role \in {"user", "bot"}
    /\ act.conversation = [isGroup |-> TRUE, conversationType |-> "issue_comment",
                           id |-> IssueNumber, repo |-> FullName]

\* Message kind with the comment body as text.
HasMappedText(act) ==
    /\ act.type = "message"
    /\ act.text = req.body.comment.body

HandedToLogic == pc = "logic" \/ "logic" \in steps

\* C6 as stated: the activity handed to bot logic for a foreign issue_comment
\* is message-kind with text comment.body, and has the mapped label, sender
\* and conversation.
C6_LogicSeesMappedActivity ==
    (IsForeignIssueComment /\ HandedToLogic)
        => HasMappedText(activity) /\ HasMappedEnvelope(activity)

\* C6 amended: the activity processActivity builds for a foreign issue_comment
\* is message-kind with text comment.body and the mapped label, sender and
\* conversation; the activity handed to bot logic keeps label, sender and
\* conversation, and keeps kind and text when the Mention/Command Classifier
\* is not bound.
C6_BuiltActivityMapped ==
    (IsForeignIssueComment /\ "build" \in steps)
        => /\ HasMappedText(built)
           /\ HasMappedEnvelope(built)
           /\ HandedToLogic =>
                /\ HasMappedEnvelope(activity)
                /\ (\A i \in 1..Len(mw) : mw[i] # "GithubMessageTypeMiddleware")
                      => HasMappedText(activity)

\* A comment by an account of type Bot (not the bot itself) was handed to bot
\* logic with the classifier bound and its text untouched.
C6_Witness ==
    /\ IsForeignIssueComment
    /\ "logic" \in steps
    /\ req.body.comment.user.type = "Bot"
    /\ activity.from.role = "bot"
    /\ activity.text = req.body.comment.body
    /\ \E i \in 1..Len(mw) : mw[i] = "GithubMessageTypeMiddleware"

-----------------------------------------------------------------------------
(* Properties of sendActivities (specification SpecSend) *)

RECURSIVE ExpectedResponses(_)
\* One record for each activity whose create-comment call returned < 300, in
\* batch order, over the first k activities.
ExpectedResponses(k) ==
    IF k = 0 THEN <<>>
    ELSE IF k <= Len(attempts) /\ attempts[k] = "created"
    THEN Append(ExpectedResponses(k - 1),
                [id |-> NewCommentId(k), activityId |-> batch[k].id,
                 conversation |-> batch[k].conversation])
    ELSE ExpectedResponses(k - 1)

\* C7: sendActivities never raises to its caller, attempts every activity of
\* the batch, and returns exactly the records of the successful sends, in
\* batch order.
C7_SendNeverThrows ==
    /\ pc # "sendThrown"
    /\ pc = "sendReturned"
          => /\ Len(attempts) = Len(batch)
             /\ responses = ExpectedResponses(Len(batch))

-----------------------------------------------------------------------------
(* Properties of the Mention/Command Classifier (specification SpecClassify) *)

Classified == Applied("GithubMessageTypeMiddleware")

\* The text starts with "/" followed by a word character.
IsSlashCommandText(text) ==
    Truthy(text) /\ Len(text) >= 2 /\ text[1] = "/" /\ IsWordChar(text[2])

StartsWithMention(text) ==
    Truthy(text) /\ MatchAt(text, <<"@">> \o identity.login, 1)

ContainsMention(text) ==
    Truthy(text) /\ \E i \in 1..Len(text) : MatchAt(text, <<"@">> \o identity.login, i)

\* C8: a message whose text starts with "/" and word characters and does not
\* mention the bot is tagged slash_command, becomes event-kind, and loses its
\* leading slash.
C8_SlashCommandClassified ==
    (Classified /\ built.type = "message" /\ IsSlashCommandText(built.text)
       /\ ~ContainsMention(built.text))
        => /\ activity.channelData.botkitEventType = "slash_command"
           /\ activity.type = "event"
           /\ activity.text = Tail(built.text)

RECURSIVE StripAllSeparators(_)
\* The text without every leading whitespace or colon character.
StripAllSeparators(text) ==
    IF text # <<>> /\ Head(text) \in {" ", ":"}
    THEN StripAllSeparators(Tail(text)) ELSE text

AfterMention(text) == SubSeq(text, Len(identity.login) + 2, Len(text))

\* C9 as stated: a message starting with "@<login>" is tagged direct_mention,
\* stays message-kind, and its text loses the mention and any whitespace or
\* colon after it.
C9_DirectMentionStripsSeparators ==
    (Classified /\ built.type = "message" /\ StartsWithMention(built.text))
        => /\ activity.channelData.botkitEventType = "direct_mention"
           /\ activity.type = "message"
           /\ activity.text = StripAllSeparators(AfterMention(built.text))

AllWhitespace(text) == \A i \in 1..Len(text) : text[i] = " "

\* removed is what the three replace calls take off the front of rest,
\* leaving kept: whitespace, or whitespace, one colon and at least one
\* whitespace character; kept starts with no whitespace, and starts with a
\* colon followed by whitespace only when a colon was already removed.
IsMentionRemainder(rest, n) ==
    LET removed == SubSeq(rest, 1, n)
        kept == SubSeq(rest, n + 1, Len(rest))
        colonAt == { i \in 1..n : removed[i] = ":" }
    IN  /\ kept = <<>> \/ kept[1] # " "
        /\ \/ /\ AllWhitespace(removed)
              /\ ~(Len(kept) >= 2 /\ kept[1] = ":" /\ kept[2] = " ")
           \/ /\ Cardinality(colonAt) = 1
              /\ removed[n] = " "
              /\ \A i \in 1..n : removed[i] \in {" ", ":"}
              /\ \A i \in colonAt : AllWhitespace(SubSeq(removed, 1, i - 1))

\* C9 amended: a message starting with "@<login>" is tagged direct_mention,
\* stays message-kind, and its text loses the mention, the whitespace after
\* it, and one colon only when whitespace follows that colon (with that
\* whitespace).
C9_DirectMentionStripped ==
    (Classified /\ built.type = "message" /\ StartsWithMention(built.text))
        => /\ activity.channelData.botkitEventType = "direct_mention"
           /\ activity.type = "message"
           /\ \E n \in 0..Len(AfterMention(built.text)) :
                 /\ activity.text = SubSeq(AfterMention(built.text), n + 1,
                                           Len(AfterMention(built.text)))
                 /\ IsMentionRemainder(AfterMention(built.text), n)

\* "@b w" was classified: direct mention, text "w".
C9_Witness ==
    /\ Classified
    /\ built.text = <<"@", "b", " ", "w">>
    /\ activity.channelData.botkitEventType = "direct_mention"
    /\ activity.text = <<"w">>

\* C10: a message that mentions the bot, but not at its start, is tagged
\* mention with text and kind unchanged; a message with no mention and no
\* leading slash command keeps no tag, its text and its kind.
C10_MentionAndAmbient ==
    (Classified /\ built.type = "message")
        => /\ (ContainsMention(built.text) /\ ~StartsWithMention(built.text))
                => /\ activity.channelData.botkitEventType = "mention"
                   /\ activity.text = built.text
                   /\ activity.type = "message"
           /\ (~ContainsMention(built.text) /\ ~IsSlashCommandText(built.text))
                => /\ activity.channelData.botkitEventType = "undefined"
                   /\ activity.text = built.text
                   /\ activity.type = "message"

\* "w @b" was classified: mention, text unchanged.
C10_Witness ==
    /\ Classified
    /\ built.text = <<"w", " ", "@", "b">>
    /\ activity.channelData.botkitEventType = "mention"
    /\ activity.text = built.text

-----------------------------------------------------------------------------
(* Properties of the Event-Type Tagger (specification SpecClassify) *)

Tagged == Applied("GithubEventTypeMiddleware")

\* The step is a run of the tagger on an event-kind activity that is not
\* tagged slash_command.
TaggerRunsOnEvent ==
    /\ mw' = Append(mw, "GithubEventTypeMiddleware")
    /\ activity.type = "event"
    /\ activity.channelData.botkitEventType # "slash_command"

\* "<event_type>_<action>" when the payload has an action, else "<event_type>".
CompositeTag(act) ==
    IF act.channelData.action # "undefined"
    THEN act.label \o "_" \o act.channelData.action
    ELSE act.label

\* C11: on an event-kind activity not tagged slash_command the tagger sets
\* botkitEventType to "<event_type>_<action>" (or "<event_type>" without an
\* action); a pull_request event gets the conversation {isGroup true,
\* conversationType pull_request, id channelData.number, repo full_name}, an
\* issues event the issue number and full name, and any other event type
\* keeps its conversation.
C11_TaggerTagsAndBackfills ==
    [][TaggerRunsOnEvent
        => /\ activity'.channelData.botkitEventType = CompositeTag(activity)
           /\ activity.label = "pull_request"
                => activity'.conversation =
                      [isGroup |-> TRUE, conversationType |-> "pull_request",
                       id |-> activity.channelData.number,
                       repo |-> activity.channelData.full_name]
           /\ activity.label = "issues"
                => activity'.conversation =
                      [isGroup |-> TRUE, conversationType |-> "issues",
                       id |-> activity.channelData.issue_number,
                       repo |-> activity.channelData.full_name]
           /\ activity.label \notin {"pull_request", "issues"}
                => activity'.conversation = activity.conversation]_vars

\* A pull_request event with action "opened" was tagged pull_request_opened
\* and got the conversation of the pull request.
C11_Witness ==
    /\ Tagged
    /\ built.type = "event"
    /\ built.label = "pull_request"
    /\ built.channelData.action = "opened"
    /\ activity.channelData.botkitEventType = "pull_request_opened"
    /\ activity.conversation.id = PullNumber
    /\ activity.conversation.repo = FullName

-----------------------------------------------------------------------------
(* Properties of updateActivity and deleteActivity (specification SpecEdit) *)

\* The argument of the last call carried an id and a conversation.
ArgComplete == call.id # NoId /\ call.hasConversation

\* The request of the last call failed: it rejected or resolved with a
\* status of 300 or more.
RequestFailed == call.outcome \in {"rejected", "status300"}

\* C12: deleteActivity with a reference that has an activityId and a
\* conversation logs and re-raises a failure of the delete-comment request;
\* without activityId or conversation it raises and makes no API call.
C12_DeleteFailureReraised ==
    call.op = "delete"
        => /\ (ArgComplete /\ RequestFailed) => (call.logged /\ call.raised)
           /\ ~ArgComplete => (call.raised /\ apiCalls = <<>>)

\* C13: updateActivity raises without an API call when the activity lacks an
\* id or a conversation; otherwise it never raises, and the only request it
\* issues is update-comment with comment_id = the activity's id, and only for
\* conversation type issue_comment.
C13_UpdateNeverRaises ==
    call.op = "update"
        => /\ ~ArgComplete => (call.raised /\ apiCalls = <<>>)
           /\ ArgComplete
                => /\ ~call.raised
                   /\ \A i \in 1..Len(apiCalls) :
                         /\ apiCalls[i].op = "updateComment"
                         /\ apiCalls[i].comment_id = call.id
                         /\ call.conversation.conversationType = "issue_comment"
                   /\ call.conversation.conversationType # "issue_comment"
                         => apiCalls = <<>>

\* An update-comment request for comment 2001 was rejected and updateActivity
\* returned normally.
C13_Witness ==
    /\ call.op = "update"
    /\ ArgComplete
    /\ call.outcome = "rejected"
    /\ ~call.raised
    /\ Len(apiCalls) = 1
    /\ apiCalls[1].comment_id = <<NewCommentId(1)>>

-----------------------------------------------------------------------------
(* Properties of the API client and the identity cache (specification Spec) *)

\* C14: the API client is constructed at most once per adapter, and never
\* without a token.
C14_ClientConstructedOnce ==
    /\ clients <= 1
    /\ ~options.githubToken => clients = 0

\* C15: once the identity is cached no step changes it or issues another
\* authenticated-user request; a successful getBotUserFromAPI leaves it
\* cached; a failed one leaves the cache unset, and a call with the cache
\* unset and a token configured issues the request.
C15_IdentityFetchedOnce ==
    [][/\ identity # NoIdentity
            => (identity' = identity /\ userRequests' = userRequests)
       /\ (pc = "identity" /\ pc' = "build") => identity' # NoIdentity
       /\ (pc = "identity" /\ pc' = "rejected") => identity' = NoIdentity
       /\ (pc = "identity" /\ identity = NoIdentity /\ options.githubToken)
            => userRequests' = userRequests + 1]_vars

\* The identity lookup of a second delivery returned the cached identity: one
\* authenticated-user request was issued in all.
C15_Witness ==
    /\ turn = 2
    /\ "identity" \in steps
    /\ pc = "build"
    /\ identity = BotIdentity
    /\ userRequests = 1

-----------------------------------------------------------------------------
(* Properties of a whole delivery (specification Spec) *)

\* The delivery passed verification, the identity was resolved, and it is
\* not a comment written by the bot.
ReachesLogic ==
    /\ verified.ret = "true"
    /\ "build" \in steps
    /\ ~(req.eventType = "issue_comment"
           /\ req.body.comment.user.id = identity.user_id)

\* C16: a delivery that passes verification, resolves the identity and is
\* not self-authored has bot logic invoked exactly once and its response
\* written exactly once; no delivery has bot logic invoked twice, or
\* invoked without verification having passed.
C16_OneLogicOneResponse ==
    /\ logicCalls <= 1
    /\ logicCalls > 0 => verified.ret = "true"
    /\ (Settled /\ ReachesLogic) => (logicCalls = 1 /\ res.writes = 1)

TaggerBound == \E i \in 1..Len(mw) : mw[i] = "GithubEventTypeMiddleware"

\* The create-comment call that answers into the pull request or issue of
\* the delivery.
ExpectedReplyCall ==
    [op |-> "createComment", owner |-> <<"o">>, repo |-> <<"r">>,
     issue_number |-> IF req.eventType = "pull_request"
                      THEN PullNumber ELSE IssueNumber]

\* C18: for a pull_request or issues delivery, a reply sent by bot logic
\* issues one create-comment call (owner and repo of repository.full_name,
\* issue_number the PR or issue number) when the tagger is bound, and no
\* create-comment call when it is not.
C18_TaggerMakesRepliable ==
    (req.eventType \in {"pull_request", "issues"} /\ "reply" \in steps)
        => IF TaggerBound
           THEN apiCalls = <<ExpectedReplyCall>>
           ELSE apiCalls = <<>>

\* Bot logic replied to a tagged pull_request delivery and the comment was
\* requested on pull request 17 of o/r.
C18_Witness ==
    /\ req.eventType = "pull_request"
    /\ "reply" \in steps
    /\ TaggerBound
    /\ Len(apiCalls) = 1
    /\ apiCalls[1].issue_number = PullNumber
    /\ apiCalls[1].owner = <<"o">>

-----------------------------------------------------------------------------
(* Properties of the two passes together (specification SpecClassify) *)

BothApplied == Classified /\ Tagged

ClassifierThenTagger ==
    GithubEventTypeMiddleware(GithubMessageTypeMiddleware(built, identity))

TaggerThenClassifier ==
    GithubMessageTypeMiddleware(GithubEventTypeMiddleware(built), identity)

\* C17: whichever of the two passes ran first, the final activity is the one
\* the other order yields, and a slash_command tag set by the classifier is
\* still there after the tagger.
C17_PassesCommute ==
    BothApplied
        => /\ activity = ClassifierThenTagger
           /\ activity = TaggerThenClassifier
           /\ GithubMessageTypeMiddleware(built, identity).channelData.botkitEventType
                 = "slash_command"
                => activity.channelData.botkitEventType = "slash_command"

\* The comment "/w" went through the classifier and then the tagger: it is an
\* event tagged slash_command with text "w".
C17_Witness ==
    /\ mw = <<"GithubMessageTypeMiddleware", "GithubEventTypeMiddleware">>
    /\ built.text = <<"/", "w">>
    /\ activity.type = "event"
    /\ activity.channelData.botkitEventType = "slash_command"
    /\ activity.text = <<"w">>

-----------------------------------------------------------------------------
(* Properties of deleteActivity's target (specification SpecEdit) *)

\* owner and repo of a repository full name "owner/repo".
OwnerOf(fullName) == Split(fullName, "/")[1]
RepoOf(fullName) == Split(fullName, "/")[2]

\* C19: every delete-comment call of deleteActivity has comment_id =
\* reference.activityId and owner and repo of reference.conversation, and is
\* issued only when reference.conversation is of type issue_comment.
C19_DeleteUsesReference ==
    call.op = "delete"
        => \A i \in 1..Len(apiCalls) :
              apiCalls[i].op = "deleteComment"
                => /\ apiCalls[i].comment_id = call.id
                   /\ apiCalls[i].owner = OwnerOf(call.conversation.repo)
                   /\ apiCalls[i].repo = RepoOf(call.conversation.repo)
                   /\ call.conversation.conversationType = "issue_comment"

====
